---- MODULE Spec2Model ----
(***************************************************************************)
(* pxlclnt: a pixelflut client.  This module models src/main.rs: the       *)
(* image() pipeline (size query, rasterize, partition, clip, batch, one    *)
(* thread per shard running work()) together with the pure helpers it      *)
(* uses (Pixel::to_cmd, the colour formatting, the SIZE reply parser).     *)
(*                                                                         *)
(* Text is modelled as a sequence of one-character strings, so formatting  *)
(* and parsing are real conversions.  u32 is modelled as arithmetic        *)
(* modulo U32Mod.                                                          *)
(***************************************************************************)
EXTENDS Integers, Sequences, FiniteSets, TLC

\* ------------------------------------------------------------------ bounds
MaxImgW == 3            \* widest decoded image
MaxImgH == 2            \* tallest decoded image
MaxThreads == 2         \* largest --threads value
MaxBatch == 2           \* largest --size value
MaxWrites == 2          \* pixel() calls (or empty passes) a worker is followed for
U32Mod == 16            \* number of values of the modelled u32 (2^32 in the build)
MaxRect == 2            \* largest end_x, end_y of a rect
MaxRectWrites == 5      \* writes (or empty passes) rect() is followed for

\* ------------------------------------------------------------- text helpers
Min(a, b) == IF a < b THEN a ELSE b

DecDigits == <<"0", "1", "2", "3", "4", "5", "6", "7", "8", "9">>
HexDigits == <<"0", "1", "2", "3", "4", "5", "6", "7", "8", "9",
               "a", "b", "c", "d", "e", "f">>

\* "{}" of an unsigned integer: its decimal digits, no padding
RECURSIVE Dec(_)
Dec(n) == IF n < 10 THEN <<DecDigits[n + 1]>>
          ELSE Dec(n \div 10) \o <<DecDigits[(n % 10) + 1]>>

\* "{:02x?}" of a u8: two lowercase hex digits, zero padded
Hex2(b) == <<HexDigits[(b \div 16) + 1], HexDigits[(b % 16) + 1]>>

\* format!("{:02x?}{:02x?}{:02x?}", r, g, b)
FormatColor(rgb) == Hex2(rgb[1]) \o Hex2(rgb[2]) \o Hex2(rgb[3])

\* Pixel::to_cmd: format!("PX {} {} {}\n", self.x, self.y, self.color)
to_cmd(pxl) == <<"P", "X", " ">> \o Dec(pxl.x) \o <<" ">> \o Dec(pxl.y)
               \o <<" ">> \o pxl.color \o <<"\n">>

\* concatenation of a sequence of texts, in order (the format!("{}{}", cmd, i)
\* accumulation of the batcher)
RECURSIVE Concat(_)
Concat(ss) == IF ss = <<>> THEN <<>> ELSE Head(ss) \o Concat(Tail(ss))

IsDigit(c) == \E i \in 1..10 : DecDigits[i] = c
DigitVal(c) == (CHOOSE i \in 1..10 : DecDigits[i] = c) - 1

\* length of the longest prefix of s made of decimal digits
RECURSIVE DigitRun(_)
DigitRun(s) == IF s # <<>> /\ IsDigit(Head(s)) THEN 1 + DigitRun(Tail(s)) ELSE 0

\* value of a digit string, saturating at U32Mod (any value >= U32Mod is out
\* of the u32 range)
RECURSIVE DecValue(_, _)
DecValue(s, acc) ==
    IF s = <<>> THEN acc
    ELSE DecValue(Tail(s), Min(acc * 10 + DigitVal(Head(s)), U32Mod))

Drop(s, n) == SubSeq(s, n + 1, Len(s))
Take(s, n) == SubSeq(s, 1, n)

\* nom::character::complete::u32: one or more digits whose value fits a u32.
\* Result: [ok, val, rest].
ParseU32(s) ==
    LET n == DigitRun(s)
        v == DecValue(Take(s, n), 0)
    IN  IF n = 0 \/ v >= U32Mod
        THEN [ok |-> FALSE, val |-> 0, rest |-> s]
        ELSE [ok |-> TRUE, val |-> v, rest |-> Drop(s, n)]

StartsWith(s, t) == Len(s) >= Len(t) /\ Take(s, Len(t)) = t

\* size::parse: take(5), then u32 " " u32 "\r\n".  The 5 characters taken are
\* not compared with anything.  Result: [ok, size].
parse(input) ==
    IF Len(input) < 5 THEN [ok |-> FALSE, size |-> <<0, 0>>]
    ELSE LET a == ParseU32(Drop(input, 5))
             b == ParseU32(Drop(a.rest, 1))
         IN  IF /\ a.ok
                /\ StartsWith(a.rest, <<" ">>)
                /\ b.ok
                /\ StartsWith(b.rest, <<"\r", "\n">>)
             THEN [ok |-> TRUE, size |-> <<a.val, b.val>>]
             ELSE [ok |-> FALSE, size |-> <<0, 0>>]

\* --------------------------------------------------------- image pipeline
\* the decoded RGB value of the image pixel at local coordinate (ix, iy)
\* (image::open(path).to_rgb8(); the decoder is an external library)
ColorBytes == <<0, 10, 255>>
ImagePixel(ix, iy) == <<ColorBytes[(ix % 3) + 1], ColorBytes[(iy % 3) + 1],
                        ColorBytes[((ix + iy) % 3) + 1]>>

\* u32 addition of the release build (wrapping) and the condition under which
\* the debug build panics instead
AddU32(a, b) == (a + b) % U32Mod
Overflows(a, b) == a + b >= U32Mod

\* image.enumerate_pixels().map(|pxl| Pixel {..}).collect(): row-major, x fastest
AllPixels(f, im) ==
    [k \in 1..(f.width * f.height) |->
        LET ix == (k - 1) % f.width
            iy == (k - 1) \div f.width
        IN  [x |-> AddU32(im.x, ix), y |-> AddU32(im.y, iy),
             color |-> FormatColor(ImagePixel(ix, iy))]]

\* some img.x + pxl.0 or img.y + pxl.1 leaves the u32 range
RasterOverflows(f, im) ==
    /\ f.width > 0 /\ f.height > 0
    /\ \/ Overflows(im.x, f.width - 1)
       \/ Overflows(im.y, f.height - 1)

\* the warning condition of image()
OverCanvas(f, limit) == f.width > limit[1] \/ f.height > limit[2]

\* a filter that lets the first column and row beyond the canvas through
InBoundsInclusive(pxl, limit) == pxl.x <= limit[1] /\ pxl.y <= limit[2]

\* the filter of the partitioner
InBounds(pxl, limit) == pxl.x < limit[1] /\ pxl.y < limit[2]

\* let span = all_pixels.len() / args.threads
SpanOf(len, threads) == len \div threads

\* a slice that ends one element late
SliceHiLate(span, i) == span * (i + 1) + 1

\* the bounds of the slice of thread i (from 0): (span * i)..(span * (i + 1))
SliceLo(span, i) == span * i
SliceHi(span, i) == span * (i + 1)

\* &all_pixels[(span * i)..(span * (i + 1))], i counted from 0
Slice(pixels, span, i) == SubSeq(pixels, SliceLo(span, i) + 1, SliceHi(span, i))

\* every slice of the partition loop lies inside a sequence of len elements
\* (a slice that does not makes the indexing panic)
SlicesInRange(len, threads) ==
    \A i \in 0..(threads - 1) :
        /\ SliceLo(SpanOf(len, threads), i) <= SliceHi(SpanOf(len, threads), i)
        /\ SliceHi(SpanOf(len, threads), i) <= len

\* the body of the partition loop for thread i (from 0): slice, filter, to_cmd
Shard(pixels, span, i, limit) ==
    LET Keep(p) == InBounds(p, limit)
        kept == SelectSeq(Slice(pixels, span, i), Keep)
    IN  [k \in 1..Len(kept) |-> to_cmd(kept[k])]

\* tasks after the partition loop
Tasks(pixels, threads, limit) ==
    [t \in 1..threads |-> Shard(pixels, SpanOf(Len(pixels), threads), t - 1, limit)]

\* the groups of s from element lo on: consecutive groups of size elements, the last group
\* holding what is left
RECURSIVE ChunksFrom(_, _, _)
ChunksFrom(s, size, lo) ==
    IF lo > Len(s) THEN <<>>
    ELSE LET n == Min(size, Len(s) - lo + 1)
         IN  <<SubSeq(s, lo, lo + n - 1)>> \o ChunksFrom(s, size, lo + n)

\* groups of exactly size elements; what is left at the end is dropped
RECURSIVE ChunksExact(_, _)
ChunksExact(s, size) ==
    IF Len(s) < size THEN <<>>
    ELSE <<Take(s, size)>> \o ChunksExact(Drop(s, size), size)

\* itertools chunks(size)
Chunks(s, size) == ChunksFrom(s, size, 1)

\* the closure of "group commands": one payload per chunk
Batches(task, size) ==
    LET cs == Chunks(task, size) IN [k \in 1..Len(cs) |-> Concat(cs[k])]

\* spans after "group commands"
Spans(tsks, size) == [t \in 1..Len(tsks) |-> Batches(tsks[t], size)]

\* ------------------------------------------------------------------ inputs
\* worker indices (thread i of the code is worker i + 1)
Workers == 1..MaxThreads

\* values of --domain; the second is the literal of work()
Domains == {"pixelflut.example:1234", "localhost:1337"}

\* the address work() connects to
WorkAddr == "localhost:1337"

\* the file at img.path: undecodable, or an image of some size
Files == {[ok |-> FALSE, width |-> 0, height |-> 0]}
         \cup {[ok |-> TRUE, width |-> w, height |-> h] :
                  w \in 1..MaxImgW, h \in 1..MaxImgH}

\* placement offsets (img.x, img.y)
Offsets == {[x |-> 0, y |-> 0], [x |-> 1, y |-> 0], [x |-> U32Mod - 1, y |-> 0]}

\* what the server may answer to SIZE (one line, as read_line returns it)
SizeLine(w, h) == <<"S", "I", "Z", "E", " ">> \o Dec(w) \o <<" ">> \o Dec(h)
                  \o <<"\r", "\n">>
Replies == {SizeLine(2, 1), SizeLine(12, 3),
            <<"S", "I", "Z", "E", " ", "1", "2", "\r", "\n">>,
            <<"S", "I", "Z", "E", " ", "4", " ", "3", "\n">>,
            <<"H", "E", "L", "L", "O", "4", " ", "3", "\r", "\n">>,
            <<>>}

\* the Rect arguments: start_x, start_y, end_x, end_y, color
Rects == [start_x : 0..1, start_y : 0..1, end_x : 0..MaxRect, end_y : 0..MaxRect,
          color : {<<"f", "f", "0", "0", "a", "a">>}]

\* ------------------------------------------------------------------- state
VARIABLES
    command,        \* the subcommand: Image or Rect
    rect,           \* Rect
    rconn,          \* rect(): address of its connection ("none" if not opened)
    rwire,          \* rect(): the bytes written to its connection
    rcur,           \* rect(): x and y of the loops
    rcalls,         \* rect(): completed write_all calls (passes, for an empty rect)
    args,           \* Arguments: domain, threads, loops, size
    img,            \* Image: x, y (the offset)
    file,           \* the file at img.path
    pc,             \* position of main: open, size, prepare, spawn, join (image()),
                    \* rect, rect_loop (rect()), returned
    result,         \* outcome of the process: Running, Ok, ErrDecode, ErrConnect, ErrIo,
                    \* or a panic: PanicUnwrap, PanicOverflow, PanicDivZero, PanicSlice,
                    \* PanicChunks
    sizeConn,       \* address size() connected to ("none" before)
    buffer,         \* the line size() read
    canvas_limit,   \* the parsed SIZE reply
    warned,         \* number of WARN lines printed
    all_pixels,     \* Vec<Pixel>
    tasks,          \* Vec<Vec<String>> of commands, one per thread
    spans,          \* Vec<Vec<String>> of payloads, one per thread
    spawned,        \* number of threads spawned
    joined,         \* number of handles joined
    wstate,         \* per worker: Idle, Connecting, Sending, Done, Failed
    conn,           \* per worker: address of its connection ("none" if not opened)
    opened,         \* per worker: connections it has opened
    wire,           \* per worker: the payloads written to its connection, in order
    idx,            \* per worker: batches of the current pass already written
    passes,         \* per worker: completed passes over its task
    werr            \* per worker: none, connect, write

mainVars == <<pc, result, sizeConn, buffer, canvas_limit, warned, all_pixels, tasks, spans,
              spawned, joined>>
workerVars == <<wstate, conn, opened, wire, idx, passes, werr>>
inputVars == <<args, img, file>>
rectVars == <<command, rect, rconn, rwire, rcur, rcalls>>
imageVars == <<sizeConn, buffer, canvas_limit, warned, all_pixels, tasks, spans,
               spawned, joined>>
vars == <<inputVars, rectVars, mainVars, workerVars>>

\* Arguments::parse() and the match on args.command
Init ==
    /\ command \in {"Image", "Rect"}
    /\ IF command = "Image"
       THEN /\ args \in [domain : Domains, threads : 0..MaxThreads, loops : BOOLEAN,
                         size : 0..MaxBatch]
            /\ img \in Offsets
            /\ file \in Files
            /\ rect = [start_x |-> 0, start_y |-> 0, end_x |-> 0, end_y |-> 0,
                       color |-> <<>>]
            /\ pc = "open"
       ELSE \* threads and size work only with image
            /\ args \in [domain : Domains, threads : {1}, loops : BOOLEAN, size : {1}]
            /\ img = [x |-> 0, y |-> 0]
            /\ file = [ok |-> FALSE, width |-> 0, height |-> 0]
            /\ rect \in Rects
            /\ pc = "rect"
    /\ rconn = "none"
    /\ rwire = <<>>
    /\ rcur = [x |-> 0, y |-> 0]
    /\ rcalls = 0
    /\ result = "Running"
    /\ sizeConn = "none"
    /\ buffer = <<>>
    /\ canvas_limit = <<0, 0>>
    /\ warned = 0
    /\ all_pixels = <<>>
    /\ tasks = <<>>
    /\ spans = <<>>
    /\ spawned = 0
    /\ joined = 0
    /\ wstate = [w \in Workers |-> "Idle"]
    /\ conn = [w \in Workers |-> "none"]
    /\ opened = [w \in Workers |-> 0]
    /\ wire = [w \in Workers |-> <<>>]
    /\ idx = [w \in Workers |-> 0]
    /\ passes = [w \in Workers |-> 0]
    /\ werr = [w \in Workers |-> "none"]

\* ---------------------------------------------------------- main / image()
\* the process ends with the given outcome
Exit(outcome) == pc' = "returned" /\ result' = outcome

\* an open that hands an empty image on when the file cannot be decoded
OpenNeverFails(f) == FALSE

\* the ? of image::open(&img.path)?: the error is returned
OpenFails(f) == ~f.ok

\* image::open(&img.path)?.to_rgb8()
OpenImage ==
    /\ pc = "open"
    /\ IF OpenFails(file) THEN Exit("ErrDecode")
                          ELSE pc' = "size" /\ result' = result
    /\ UNCHANGED <<inputVars, rectVars, workerVars, sizeConn, buffer, canvas_limit, warned,
                   all_pixels, tasks, spans, spawned, joined>>

\* size(): TcpStream::connect(&args.domain) fails
SizeConnectFail ==
    /\ pc = "size"
    /\ sizeConn' = args.domain
    /\ Exit("ErrConnect")
    /\ UNCHANGED <<inputVars, rectVars, workerVars, buffer, canvas_limit, warned, all_pixels,
                   tasks, spans, spawned, joined>>

\* size(): write_all(b"SIZE\n") or read_line fails
SizeIoFail ==
    /\ pc = "size"
    /\ sizeConn' = args.domain
    /\ Exit("ErrIo")
    /\ UNCHANGED <<inputVars, rectVars, workerVars, buffer, canvas_limit, warned, all_pixels,
                   tasks, spans, spawned, joined>>

\* size(): a line is read; parse(&buffer).unwrap().1
SizeReply(line) ==
    /\ pc = "size"
    /\ sizeConn' = args.domain
    /\ buffer' = line
    /\ LET r == parse(line)
       IN  IF r.ok THEN /\ canvas_limit' = r.size
                        /\ pc' = "prepare"
                        /\ result' = result
                   ELSE /\ canvas_limit' = canvas_limit
                        /\ Exit("PanicUnwrap")
    /\ UNCHANGED <<inputVars, rectVars, workerVars, warned, all_pixels, tasks, spans,
                   spawned, joined>>

\* image() from the warning to the end of "group commands".  checks: whether
\* the build panics on integer overflow (debug) or wraps (release).
Prepare(checks) ==
    /\ pc = "prepare"
    /\ warned' = IF OverCanvas(file, canvas_limit) THEN warned + 1 ELSE warned
    /\ IF checks /\ RasterOverflows(file, img)
       THEN \* attempt to add with overflow
            /\ Exit("PanicOverflow")
            /\ UNCHANGED <<all_pixels, tasks, spans>>
       ELSE /\ all_pixels' = AllPixels(file, img)
            /\ IF args.threads = 0
               THEN \* attempt to divide by zero
                    /\ Exit("PanicDivZero")
                    /\ UNCHANGED <<tasks, spans>>
               ELSE IF ~SlicesInRange(Len(all_pixels'), args.threads)
               THEN \* range end index out of range for slice
                    /\ Exit("PanicSlice")
                    /\ UNCHANGED <<tasks, spans>>
               ELSE /\ tasks' = Tasks(all_pixels', args.threads, canvas_limit)
                    /\ IF args.size = 0
                       THEN \* chunks(0): assertion failed: size != 0
                            /\ Exit("PanicChunks")
                            /\ UNCHANGED spans
                       ELSE /\ spans' = Spans(tasks', args.size)
                            /\ pc' = "spawn"
                            /\ result' = result
    /\ UNCHANGED <<inputVars, rectVars, workerVars, sizeConn, buffer, canvas_limit, spawned,
                   joined>>

\* one iteration of the spawn loop: std::thread::spawn for thread i = spawned
Spawn ==
    /\ pc = "spawn"
    /\ spawned < args.threads
    /\ spawned' = spawned + 1
    /\ wstate' = [wstate EXCEPT ![spawned + 1] = "Connecting"]
    /\ pc' = IF spawned + 1 = args.threads THEN "join" ELSE "spawn"
    /\ UNCHANGED <<inputVars, rectVars, result, sizeConn, buffer, canvas_limit, warned,
                   all_pixels, tasks, spans, joined, conn, opened, wire, idx, passes,
                   werr>>

\* a join that does not wait for the thread to end
EndedEarly(w) == wstate[w] # "Idle"

\* the thread of worker w has ended (returned or panicked)
Ended(w) == wstate[w] \in {"Done", "Failed"}

\* what image() returns after the join loop: every join result is dropped
\* (let _ = handle.join()), then Ok(())
JoinOutcome(ws) == "Ok"

\* one iteration of the join loop; after the last one image() returns
Join ==
    /\ pc = "join"
    /\ joined < args.threads
    /\ Ended(joined + 1)
    /\ joined' = joined + 1
    /\ IF joined + 1 = args.threads
       THEN Exit(JoinOutcome(wstate))
       ELSE UNCHANGED <<pc, result>>
    /\ UNCHANGED <<inputVars, rectVars, workerVars, sizeConn, buffer, canvas_limit, warned,
                   all_pixels, tasks, spans, spawned>>

\* ------------------------------------------------------------------ work()
\* every worker reads the task of thread 0
TaskOfFirst(w) == spans[1]

\* the task of worker w: task.read().unwrap()[i].clone()
TaskOf(w) == spans[w]

\* one stream shared by all workers
StreamShared(w) == 1

\* the stream worker w writes to: the local "stream" of its own call of work()
StreamOf(w) == w

\* successful pixel() calls worker w has made so far
Calls(w) == passes[w] * Len(TaskOf(w)) + idx[w]

\* a loop that runs its body once
WhileLoopsOnce(n) == args.loops /\ n = 0

\* the condition of "while loops", evaluated after n completed passes
WhileLoops(n) == args.loops

\* a panic that ends every thread of the process
PanicScopeAll(w) == Workers

\* the threads a panic of worker w ends: each worker is a std::thread of its
\* own, so unwrap() unwinds that thread only
PanicScope(w) == {w}

\* wstate after worker w panicked
AfterPanic(w) ==
    [v \in Workers |->
        IF v \in PanicScope(w) /\ wstate[v] \in {"Connecting", "Sending"}
        THEN "Failed" ELSE wstate[v]]

\* TcpStream::connect("localhost:1337") succeeds; then the first evaluation of
\* "while loops"
ConnectOk(w) ==
    /\ wstate[w] = "Connecting"
    /\ conn' = [conn EXCEPT ![w] = WorkAddr]
    /\ opened' = [opened EXCEPT ![w] = @ + 1]
    /\ wstate' = [wstate EXCEPT ![w] = IF WhileLoops(0) THEN "Sending" ELSE "Done"]
    /\ UNCHANGED <<inputVars, rectVars, mainVars, wire, idx, passes, werr>>

\* TcpStream::connect("localhost:1337") fails: unwrap() panics
ConnectFail(w) ==
    /\ wstate[w] = "Connecting"
    /\ wstate' = AfterPanic(w)
    /\ werr' = [werr EXCEPT ![w] = "connect"]
    /\ UNCHANGED <<inputVars, rectVars, mainVars, conn, opened, wire, idx, passes>>

\* pixel(&mut stream, pxl) succeeds for the next batch of the pass; after the
\* last batch of the pass "while loops" is evaluated again
WriteOk(w) ==
    /\ wstate[w] = "Sending"
    /\ Calls(w) < MaxWrites
    /\ idx[w] < Len(TaskOf(w))
    /\ wire' = [wire EXCEPT ![StreamOf(w)] = @ \o TaskOf(w)[idx[w] + 1]]
    /\ IF idx[w] + 1 = Len(TaskOf(w))
       THEN /\ idx' = [idx EXCEPT ![w] = 0]
            /\ passes' = [passes EXCEPT ![w] = @ + 1]
            /\ wstate' = [wstate EXCEPT ![w] =
                             IF WhileLoops(passes[w] + 1) THEN "Sending" ELSE "Done"]
       ELSE /\ idx' = [idx EXCEPT ![w] = @ + 1]
            /\ UNCHANGED <<passes, wstate>>
    /\ UNCHANGED <<inputVars, rectVars, mainVars, conn, opened, werr>>

\* pixel(&mut stream, pxl) fails for the next batch: unwrap() panics.  wire
\* holds the payloads of the completed write_all calls; how much of the failed
\* payload reached the socket is unspecified and not recorded.
WriteFail(w) ==
    /\ wstate[w] = "Sending"
    /\ Calls(w) < MaxWrites
    /\ idx[w] < Len(TaskOf(w))
    /\ wstate' = AfterPanic(w)
    /\ werr' = [werr EXCEPT ![w] = "write"]
    /\ UNCHANGED <<inputVars, rectVars, mainVars, conn, opened, wire, idx, passes>>

\* a pass over an empty task: the for loop does nothing and "while loops" is
\* evaluated again
EmptyPass(w) ==
    /\ wstate[w] = "Sending"
    /\ passes[w] < MaxWrites
    /\ Len(TaskOf(w)) = 0
    /\ passes' = [passes EXCEPT ![w] = @ + 1]
    /\ wstate' = [wstate EXCEPT ![w] =
                     IF WhileLoops(passes[w] + 1) THEN "Sending" ELSE "Done"]
    /\ UNCHANGED <<inputVars, rectVars, mainVars, conn, opened, wire, idx, werr>>

\* ------------------------------------------------------------------ rect()
\* a range that includes its end
InRangeInclusive(v, lo, hi) == lo <= v /\ v <= hi

\* v is in the range lo..hi of a for loop
InRange(v, lo, hi) == lo <= v /\ v < hi

\* the loops of rect() have at least one (x, y)
RectNonEmpty ==
    /\ InRange(rect.start_x, rect.start_x, rect.end_x)
    /\ InRange(rect.start_y, rect.start_y, rect.end_y)

\* the string s built for (x, y): "PX " x ' ' y ' ' color '\n'
RectCmd(x, y) == <<"P", "X", " ">> \o Dec(x) \o <<" ">> \o Dec(y) \o <<" ">>
                 \o rect.color \o <<"\n">>

\* the (x, y) after (x, y) in the nested for loops; after the last one the
\* while loop starts the next pass
RectAdvance(x, y) ==
    IF InRange(y + 1, rect.start_y, rect.end_y) THEN [x |-> x, y |-> y + 1]
    ELSE IF InRange(x + 1, rect.start_x, rect.end_x) THEN [x |-> x + 1, y |-> rect.start_y]
    ELSE [x |-> rect.start_x, y |-> rect.start_y]

\* TcpStream::connect(&args.domain) fails: the error is returned
RectConnectFail ==
    /\ pc = "rect"
    /\ Exit("ErrConnect")
    /\ UNCHANGED <<inputVars, imageVars, workerVars, command, rect, rconn, rwire,
                   rcur, rcalls>>

\* TcpStream::connect(&args.domain) succeeds; then the first evaluation of
\* "while args.loops"
RectConnectOk ==
    /\ pc = "rect"
    /\ rconn' = args.domain
    /\ rcur' = [x |-> rect.start_x, y |-> rect.start_y]
    /\ IF args.loops THEN pc' = "rect_loop" /\ result' = result
                     ELSE Exit("Ok")
    /\ UNCHANGED <<inputVars, imageVars, workerVars, command, rect, rwire, rcalls>>

\* stream.write_all(s.as_bytes()) succeeds for the current (x, y)
RectWriteOk ==
    /\ pc = "rect_loop"
    /\ RectNonEmpty
    /\ rcalls < MaxRectWrites
    /\ rwire' = rwire \o RectCmd(rcur.x, rcur.y)
    /\ rcur' = RectAdvance(rcur.x, rcur.y)
    /\ rcalls' = rcalls + 1
    /\ UNCHANGED <<inputVars, imageVars, workerVars, command, rect, rconn, pc,
                   result>>

\* stream.write_all(s.as_bytes()) fails: the error is returned
RectWriteFail ==
    /\ pc = "rect_loop"
    /\ RectNonEmpty
    /\ rcalls < MaxRectWrites
    /\ Exit("ErrIo")
    /\ UNCHANGED <<inputVars, imageVars, workerVars, command, rect, rconn, rwire,
                   rcur, rcalls>>

\* a pass over an empty rect: the for loops do nothing and "while args.loops"
\* is evaluated again
RectEmptyPass ==
    /\ pc = "rect_loop"
    /\ ~RectNonEmpty
    /\ rcalls < MaxRectWrites
    /\ rcalls' = rcalls + 1
    /\ UNCHANGED <<inputVars, imageVars, workerVars, command, rect, rconn, rwire,
                   rcur, pc, result>>

Next ==
    \/ OpenImage
    \/ SizeConnectFail
    \/ SizeIoFail
    \/ \E line \in Replies : SizeReply(line)
    \/ \E checks \in BOOLEAN : Prepare(checks)
    \/ Spawn
    \/ Join
    \/ \E w \in Workers : ConnectOk(w)
    \/ \E w \in Workers : ConnectFail(w)
    \/ \E w \in Workers : WriteOk(w)
    \/ \E w \in Workers : WriteFail(w)
    \/ \E w \in Workers : EmptyPass(w)
    \/ RectConnectFail
    \/ RectConnectOk
    \/ RectWriteOk
    \/ RectWriteFail
    \/ RectEmptyPass

Spec == Init /\ [][Next]_vars

\* the steps of the main thread
MainStep ==
    \/ OpenImage
    \/ SizeConnectFail
    \/ SizeIoFail
    \/ \E line \in Replies : SizeReply(line)
    \/ \E checks \in BOOLEAN : Prepare(checks)
    \/ Spawn
    \/ Join
    \/ RectConnectFail
    \/ RectConnectOk
    \/ RectWriteOk
    \/ RectWriteFail
    \/ RectEmptyPass

\* the steps of the thread of worker w
WorkerStep(w) ==
    \/ ConnectOk(w)
    \/ ConnectFail(w)
    \/ WriteOk(w)
    \/ WriteFail(w)
    \/ EmptyPass(w)

\* the runs followed to their end: no step is enabled or disabled by the value
\* of --domain, so one address stands for all
FairInit == Init /\ args.domain = WorkAddr

\* the main thread and every spawned thread keep running, and every connect
\* and write attempt completes (it succeeds or it fails)
FairSpec ==
    /\ FairInit
    /\ [][Next]_vars
    /\ WF_vars(MainStep)
    /\ \A w \in Workers : WF_vars(WorkerStep(w))

\* ------------------------------------------------- vocabulary of the claims
\* the protocol grammar, read back: the complete lines of a byte stream
\* (terminated by "\n", given without it)
Lines(s) ==
    LET nl == {i \in 1..Len(s) : s[i] = "\n"}
        End(k) == CHOOSE i \in nl : Cardinality({j \in nl : j < i}) = k - 1
    IN  [k \in 1..Cardinality(nl) |->
            SubSeq(s, IF k = 1 THEN 1 ELSE End(k - 1) + 1, End(k) - 1)]

IsHexColor(c) == Len(c) = 6 /\ \A i \in 1..6 : \E j \in 1..16 : HexDigits[j] = c[i]

\* "PX <decimal x> <decimal y> <6 lowercase hex digits>" read back
ParsePxLine(l) ==
    LET a == ParseU32(Drop(l, 3))
        b == ParseU32(Drop(a.rest, 1))
        c == Drop(b.rest, 1)
    IN  [ok |-> /\ StartsWith(l, <<"P", "X", " ">>)
                /\ a.ok /\ StartsWith(a.rest, <<" ">>)
                /\ b.ok /\ StartsWith(b.rest, <<" ">>)
                /\ IsHexColor(c),
         pxl |-> [x |-> a.val, y |-> b.val, color |-> c]]

\* the PX commands of a byte stream
PxCommands(s) == LET ls == Lines(s) IN [k \in 1..Len(ls) |-> ParsePxLine(ls[k])]

\* number of commands in a payload
CmdCount(s) == Len(Lines(s))

\* s repeated n times
RECURSIVE Repeat(_, _)
Repeat(s, n) == IF n = 0 THEN <<>> ELSE s \o Repeat(s, n - 1)

\* image() has just built the shards / the batches (no thread runs yet; tasks
\* and spans are written by no later step)
Partitioned == Len(tasks) > 0 /\ spawned = 0
Batched == Len(spans) > 0 /\ spawned = 0

\* the clipped pixel sequence: the pixels of the placed image inside the
\* canvas, in raster order, and their commands
OnCanvas(p) == p.x < canvas_limit[1] /\ p.y < canvas_limit[2]
ClippedPixels == SelectSeq(all_pixels, OnCanvas)
ClippedCmds == [k \in 1..Len(ClippedPixels) |-> to_cmd(ClippedPixels[k])]

\* workers that were spawned
Spawned == 1..spawned

\* C1: the shards built by image(), concatenated in index order, are exactly the
\* clipped pixel sequence (nothing lost, nothing duplicated, order kept).
C1_PartitionComplete == Partitioned => Concat(tasks) = ClippedCmds

\* C2: with span = L div N over the clipped sequence of length L, shard i < N-1
\* holds the indices span*i .. span*(i+1) and the last shard holds
\* span*(N-1) .. L.
C2_ShardBoundaries ==
    Partitioned =>
        LET L == Len(ClippedCmds)
            N == Len(tasks)
            span == L \div N
        IN  \A i \in 0..(N - 1) :
                tasks[i + 1] = SubSeq(ClippedCmds, span * i + 1,
                                      IF i = N - 1 THEN L ELSE span * (i + 1))

\* C3: without --loops a worker that is Done has written every batch of its
\* shard exactly once, in shard order.
C3_FiniteWritesAll ==
    \A w \in Spawned :
        (~args.loops /\ wstate[w] = "Done") => wire[w] = Concat(TaskOf(w))

\* C4: every PX command on a worker's connection has x < width and y < height of
\* the SIZE reply of the run, and each shard holds exactly the pixels of its
\* slice that lie inside the canvas, unchanged and in order.
C4_WireBounds ==
    /\ \A w \in Workers :
          LET cmds == PxCommands(wire[w])
          IN  \A k \in 1..Len(cmds) :
                  /\ cmds[k].ok
                  /\ cmds[k].pxl.x < canvas_limit[1]
                  /\ cmds[k].pxl.y < canvas_limit[2]
    /\ Partitioned =>
          \A t \in 1..Len(tasks) :
              LET cmds == PxCommands(Concat(tasks[t]))
                  slice == SelectSeq(Slice(all_pixels, Len(all_pixels) \div Len(tasks),
                                           t - 1), OnCanvas)
              IN  /\ Len(cmds) = Len(slice)
                  /\ \A k \in 1..Len(cmds) : cmds[k].ok /\ cmds[k].pxl = slice[k]

\* a worker has sent commands in a run in which part of the image was clipped
C4_Witness ==
    /\ Len(ClippedPixels) < Len(all_pixels)
    /\ \E w \in Workers : Len(PxCommands(wire[w])) >= 2

\* C5: every connection a worker opened goes to the configured --domain, the
\* address the SIZE query used.
C5_ConfiguredTarget ==
    \A w \in Workers : conn[w] # "none" => conn[w] = args.domain /\ conn[w] = sizeConn

C7_EmptyShard ==
    \A w \in Spawned :
        TaskOf(w) = <<>> => conn[w] = "none" /\ wstate[w] \in {"Connecting", "Done"}

\* C8: the batches of a shard concatenate to the shard's commands; each batch
\* holds at most --size commands, only the last may hold fewer, and batch k of
\* a shard is made of commands (k-1)*size+1 .. k*size of that shard alone.
C8_BatchIntegrity ==
    Batched =>
        \A t \in 1..Len(spans) :
            LET B == spans[t]
                T == tasks[t]
                n == args.size
            IN  /\ Concat(B) = Concat(T)
                /\ \A k \in 1..Len(B) :
                      /\ CmdCount(B[k]) >= 1
                      /\ CmdCount(B[k]) <= n
                      /\ k < Len(B) => CmdCount(B[k]) = n
                      /\ B[k] = Concat(SubSeq(T, (k - 1) * n + 1, Min(k * n, Len(T))))

\* a shard with several batches whose last batch is short
C8_Witness ==
    /\ Batched
    /\ \E t \in 1..Len(spans) :
          /\ Len(spans[t]) >= 2
          /\ CmdCount(spans[t][Len(spans[t])]) < args.size

\* C9: a step in which a worker fails changes nothing of any other worker and
\* leaves the process running.
C9_FailureIsolation ==
    [][\A w \in Workers :
          (wstate[w] # "Failed" /\ wstate'[w] = "Failed") =>
              /\ pc' = pc /\ result' = result
              /\ \A v \in Workers \ {w} :
                    /\ wstate'[v] = wstate[v]
                    /\ conn'[v] = conn[v]
                    /\ wire'[v] = wire[v]
                    /\ idx'[v] = idx[v]
                    /\ passes'[v] = passes[v]]_vars

\* one worker has failed while a sibling holds its connection and has sent
C9_Witness ==
    \E w, v \in Workers :
        /\ w # v
        /\ wstate[w] = "Failed"
        /\ wstate[v] = "Sending" /\ conn[v] # "none" /\ wire[v] # <<>>

\* C10: a finite run in which a worker failed does not end in plain success.
C10_FailureReported ==
    (pc = "returned" /\ ~args.loops /\ \E w \in Workers : wstate[w] = "Failed")
        => result # "Ok"

\* the run ended before the SIZE reply was parsed: decode error, size() error,
\* or the unwrap of a reply that does not parse
FailedEarly == result \in {"ErrDecode", "ErrConnect", "ErrIo", "PanicUnwrap"}

\* size() has read a line
SizeRead == command = "Image" /\ pc \notin {"open", "size"} /\ result \notin {"ErrDecode", "ErrConnect", "ErrIo"}

\* no thread was spawned, no worker connection opened, nothing sent
NoWorkerActivity ==
    /\ spawned = 0
    /\ \A w \in Workers :
          wstate[w] = "Idle" /\ conn[w] = "none" /\ opened[w] = 0 /\ wire[w] = <<>>

\* C11: a run whose decode or size query failed has ended with no worker
\* spawned, no worker connection and nothing sent; any worker activity implies
\* a decoded image and a parsed SIZE reply.
C11_FailFast ==
    /\ FailedEarly => (pc = "returned" /\ NoWorkerActivity)
    /\ ~NoWorkerActivity =>
          /\ file.ok
          /\ sizeConn = args.domain
          /\ parse(buffer).ok /\ canvas_limit = parse(buffer).size

\* a run that ended on a reply that does not parse
C11_Witness == pc = "returned" /\ result = "PanicUnwrap" /\ file.ok

\* C12: when a pixel of the placed image (local coordinate plus offset) lies
\* outside the canvas, exactly one warning has been printed when the workers
\* are about to be spawned.
C12_ClipWarning ==
    (/\ pc = "spawn" /\ spawned = 0
     /\ ~RasterOverflows(file, img)
     /\ \E ix \in 0..(file.width - 1), iy \in 0..(file.height - 1) :
           img.x + ix >= canvas_limit[1] \/ img.y + iy >= canvas_limit[2])
        => warned = 1

\* "SIZE <w> <h>\r\n": the literal prefix, two unsigned decimal integers
\* separated by a blank, CRLF
SizeGrammar(line) ==
    LET a == ParseU32(Drop(line, 5))
        b == ParseU32(Drop(a.rest, 1))
    IN  [ok |-> /\ StartsWith(line, <<"S", "I", "Z", "E", " ">>)
                /\ a.ok /\ StartsWith(a.rest, <<" ">>)
                /\ b.ok /\ b.rest = <<"\r", "\n">>,
         size |-> <<a.val, b.val>>]

\* C13: a reply "SIZE <w> <h>\r\n" yields (w, h); any other reply makes the size
\* query fail instead of returning a size (whatever form the failure takes).
C13_SizeParsing ==
    SizeRead =>
        IF SizeGrammar(buffer).ok
        THEN canvas_limit = SizeGrammar(buffer).size /\ result # "PanicUnwrap"
        ELSE pc = "returned" /\ result \in {"ErrProtocol", "PanicUnwrap"}

\* C14: a run with --threads 0 or --size 0 (whose image decoded and whose SIZE
\* reply parsed) ends in a ConfigError result with no worker activity.
C14_ZeroConfig ==
    (/\ pc = "returned"
     /\ args.threads = 0 \/ args.size = 0
     /\ file.ok /\ SizeRead /\ parse(buffer).ok)
        => (result = "ErrConfig" /\ NoWorkerActivity)

\* the partition loop has run (all_pixels is built and threads > 0)
PartitionRan ==
    /\ command = "Image"
    /\ pc \in {"spawn", "join", "returned"}
    /\ result \in {"Running", "Ok", "PanicSlice", "PanicChunks"}

IsPrefix(s, t) == Len(s) <= Len(t) /\ s = SubSeq(t, 1, Len(s))

\* C16: what a worker has written is a prefix of the repeated concatenation of
\* the commands of its own shard, in shard order.
C16_SendOrder ==
    \A w \in Spawned :
        /\ IsPrefix(wire[w], Repeat(Concat(tasks[w]), passes[w] + 1))
        /\ wire[w] = Repeat(Concat(spans[w]), passes[w])
                         \o Concat(SubSeq(spans[w], 1, idx[w]))

\* the second worker has written two batches of its own shard, which differs
\* from the first worker's
C16_Witness ==
    /\ spawned >= 2
    /\ tasks[1] # tasks[2]
    /\ Len(spans[2]) >= 2
    /\ wire[2] = spans[2][1] \o spans[2][2]

\* C18: a worker opens at most one connection and keeps it; a write goes to
\* the stream of the worker that made it and to no other; tasks and spans do
\* not change once a thread is spawned.
C18_Ownership ==
    [][/\ \A w \in Workers :
             /\ opened'[w] <= 1
             /\ conn[w] # "none" => (conn'[w] = conn[w] /\ opened'[w] = opened[w])
             /\ wire'[w] # wire[w] =>
                   /\ conn[w] # "none"
                   /\ idx'[w] # idx[w] \/ passes'[w] # passes[w]
                   /\ \A v \in Workers \ {w} : wire'[v] = wire[v]
       /\ spawned > 0 => (tasks' = tasks /\ spans' = spans)]_vars

\* a worker has sent two passes on the one connection it opened, next to a
\* sibling that has sent too
C18_Witness ==
    \E w, v \in Workers :
        /\ w # v
        /\ passes[w] >= 2 /\ opened[w] = 1 /\ wire[w] # <<>>
        /\ opened[v] = 1 /\ wire[v] # <<>>

\* C19: the pixels are in row-major order with x = offset.x + ix and
\* y = offset.y + iy as exact integers, and every command on a wire carries
\* such an exact sum.
C19_ExactPlacement ==
    /\ (pc = "spawn" /\ spawned = 0) =>
          /\ Len(all_pixels) = file.width * file.height
          /\ \A k \in 1..Len(all_pixels) :
                /\ all_pixels[k].x = img.x + ((k - 1) % file.width)
                /\ all_pixels[k].y = img.y + ((k - 1) \div file.width)
    /\ \A w \in Workers :
          LET cmds == PxCommands(wire[w])
          IN  \A k \in 1..Len(cmds) :
                  \E ix \in 0..(file.width - 1), iy \in 0..(file.height - 1) :
                      cmds[k].pxl.x = img.x + ix /\ cmds[k].pxl.y = img.y + iy

RectWidth == IF rect.end_x > rect.start_x THEN rect.end_x - rect.start_x ELSE 0
RectHeight == IF rect.end_y > rect.start_y THEN rect.end_y - rect.start_y ELSE 0
RectPass ==
    [k \in 1..(RectWidth * RectHeight) |->
        <<rect.start_x + ((k - 1) \div RectHeight), rect.start_y + ((k - 1) % RectHeight)>>]

\* the (x, y) of the commands on the wire of rect()
RectSent == LET cmds == PxCommands(rwire) IN [k \in 1..Len(cmds) |-> <<cmds[k].pxl.x, cmds[k].pxl.y>>]

====
